---- MODULE Spec2Model ----
(***************************************************************************)
(* Model of the Adopt Orphan plugin: the link cache (document path -> set   *)
(* of link names) kept by AdoptOrphanPlugin, the vault events that update   *)
(* it, and the orphan list derived from it by OrphanLinksView.              *)
(*                                                                          *)
(* Strings are sequences of one-character strings, so that slicing,         *)
(* splitting, trimming, suffixing and code-unit comparison are computed.    *)
(***************************************************************************)
EXTENDS Integers, Sequences, FiniteSets, Bags, TLC

VARIABLES
    store,       \* the vault: path -> content, for every file that exists
    linkCache,   \* AdoptOrphanPlugin.linkCache: path -> set of link names
    loadPc,      \* position of onload: "init", "building", "loaded"
    viewPc,      \* position of the view's onOpen: "closed", "building", "open"
    scan,        \* the running buildCache calls: "load"/"open" -> record
    tasks,       \* updateFileCache calls suspended at `await vault.read` (a bag)
    container,   \* the view's panel: the blocks rendered into it
    pending,     \* refresh() calls suspended at `await this.getOrphans()`
    unsignalled, \* history: the cache was mutated since the last refresh signal
    lastOp,      \* history: the step that has just run, when it was a handler's
    ops,         \* number of vault operations so far
    fails        \* number of reads that have thrown so far

vars == <<store, linkCache, loadPc, viewPc, scan, tasks, container, pending,
          unsignalled, lastOp, ops, fails>>

----------------------------------------------------------------------------
(* Bounds of the model                                                      *)

MaxOps == 1        \* vault operations in a run
MaxInFlight == 2   \* updateFileCache calls suspended at once
MaxPending == 2    \* refresh() calls suspended at once
MaxFails == 1      \* reads that throw although the file is there
MaxBursts == 1     \* further events on a document whose update is in flight
MaxFrags == 5      \* pieces a generated file content is made of

----------------------------------------------------------------------------
(* Strings                                                                  *)

MD == <<".", "m", "d">>

\* UTF-16 code units of the characters the model uses
Code(ch) ==
    CASE ch = " " -> 32
      [] ch = "." -> 46
      [] ch = "B" -> 66
      [] ch = "[" -> 91
      [] ch = "]" -> 93
      [] ch = "a" -> 97
      [] ch = "d" -> 100
      [] ch = "m" -> 109
      [] ch = "x" -> 120
      [] ch = "|" -> 124

Min(S) == CHOOSE x \in S : \A y \in S : x <= y

\* String.prototype.endsWith
EndsWith(s, suffix) ==
    /\ Len(s) >= Len(suffix)
    /\ SubSeq(s, Len(s) - Len(suffix) + 1, Len(s)) = suffix

\* whitespace as String.prototype.trim sees it
IsSpace(ch) == ch \in {" ", "\t", "\n"}

\* String.prototype.trim
Trim(s) ==
    LET keep == {i \in 1..Len(s) : ~IsSpace(s[i])}
    IN  IF keep = {} THEN <<>>
        ELSE SubSeq(s, Min(keep), CHOOSE i \in keep : \A j \in keep : j <= i)

\* s.split("|")[0]: the text before the first "|"
SplitFirst(s) ==
    LET bars == {i \in 1..Len(s) : s[i] = "|"}
    IN  IF bars = {} THEN s ELSE SubSeq(s, 1, Min(bars) - 1)

\* A faulty variant, for comparison: a comparator that ignores case
FoldCase(code) == IF code >= 65 /\ code <= 90 THEN code + 32 ELSE code

RECURSIVE StrLessIgnoreCase(_, _)
StrLessIgnoreCase(s, t) ==
    IF t = <<>> THEN FALSE
    ELSE IF s = <<>> THEN TRUE
    ELSE IF FoldCase(Code(Head(s))) # FoldCase(Code(Head(t)))
         THEN FoldCase(Code(Head(s))) < FoldCase(Code(Head(t)))
    ELSE StrLessIgnoreCase(Tail(s), Tail(t))

\* the default comparator of Array.prototype.sort: code-unit order
RECURSIVE StrLess(_, _)
StrLess(s, t) ==
    IF t = <<>> THEN FALSE
    ELSE IF s = <<>> THEN TRUE
    ELSE IF Code(Head(s)) # Code(Head(t)) THEN Code(Head(s)) < Code(Head(t))
    ELSE StrLess(Tail(s), Tail(t))

----------------------------------------------------------------------------
(* Link extraction: content.match(/\[\[([^\]]+)\]\]/g) and the loop on it   *)

\* index of the last character of the regex match that starts at i, or 0
MatchAt(s, i) ==
    IF i + 1 <= Len(s) /\ s[i] = "[" /\ s[i + 1] = "["
    THEN LET closes == {k \in (i + 2)..Len(s) : s[k] = "]"}
         IN  IF closes = {} THEN 0
             ELSE LET k == Min(closes)
                  IN  IF k > i + 2 /\ k + 1 <= Len(s) /\ s[k + 1] = "]"
                      THEN k + 1 ELSE 0
    ELSE 0

\* the matches of the global regex, left to right, non-overlapping
RECURSIVE Matches(_, _)
Matches(s, i) ==
    IF i > Len(s) THEN <<>>
    ELSE LET e == MatchAt(s, i)
         IN  IF e # 0 THEN <<SubSeq(s, i, e)>> \o Matches(s, e + 1)
             ELSE Matches(s, i + 1)

\* A faulty variant, for comparison: the alias after "|" is kept
LinkNameOfUncut(match) == Trim(SubSeq(match, 3, Len(match) - 2))

\* match.slice(2, -2).split("|")[0].trim()
LinkNameOf(match) == Trim(SplitFirst(SubSeq(match, 3, Len(match) - 2)))

\* the Set `links` that updateFileCache builds from a content
Extract(content) ==
    LET ms == Matches(content, 1)
    IN  {LinkNameOf(ms[i]) : i \in 1..Len(ms)} \ {<<>>}

----------------------------------------------------------------------------
(* The vault                                                                *)

PathX == <<"x">> \o MD        \* "x.md"
PathB == <<"B">> \o MD        \* "B.md"
PathN == <<"B">>              \* "B", a file that is not markdown
Paths == {PathX, PathB, PathN}

Empty == <<>>                                          \* ""
ContentAB == <<"[", "[", "a", "|", "x", "]", "]",
               "[", "[", " ", "B", " ", "]", "]">>      \* "[[a|x]][[ B ]]"
ContentBmd == <<"[", "[", "B", ".", "m", "d", "]", "]",
                "[", "[", " ", "|", "x", "]", "]",
                "[", "[", "a">>                         \* "[[B.md]][[ |x]][[a"
Contents == {ContentAB, ContentBmd}

NoStore == [p \in {} |-> Empty]

\* the vaults the plugin may be loaded on
InitStores ==
    { NoStore,
      [p \in {PathX} |-> ContentAB],
      [p \in {PathX, PathB} |-> IF p = PathX THEN ContentAB ELSE ContentBmd],
      [p \in {PathX, PathN} |-> IF p = PathX THEN ContentBmd ELSE Empty] }

\* file.extension === "md"
IsMd(path) == EndsWith(path, MD)

\* vault.getMarkdownFiles().map((f) => f.path)
getMarkdownFiles(st) == {p \in DOMAIN st : IsMd(p)}

StoreAdd(st, path, content) ==
    [p \in DOMAIN st \cup {path} |-> IF p = path THEN content ELSE st[p]]

StoreRemove(st, path) == [p \in DOMAIN st \ {path} |-> st[p]]

----------------------------------------------------------------------------
(* The link cache (a Map) and the orphan list                               *)

\* A faulty variant, for comparison: the links are added to the entry instead of replacing it
CacheSetMerge(cache, path, links) ==
    [k \in DOMAIN cache \cup {path} |->
        IF k = path
        THEN (IF path \in DOMAIN cache THEN cache[path] ELSE {}) \cup links
        ELSE cache[k]]

\* this.linkCache.set(filePath, links)
CacheSet(cache, path, links) ==
    [k \in DOMAIN cache \cup {path} |-> IF k = path THEN links ELSE cache[k]]

\* A faulty variant, for comparison: the delete misses the key
CacheDeleteMiss(cache, path) == cache

\* this.linkCache.delete(path)
CacheDelete(cache, path) == [k \in DOMAIN cache \ {path} |-> cache[k]]

\* A faulty variant, for comparison: the old key is not deleted
CacheRenameKeepsOld(cache, oldPath, newPath) ==
    IF oldPath \in DOMAIN cache
    THEN CacheSet(cache, newPath, cache[oldPath])
    ELSE cache

\* A faulty variant, for comparison: no `has` check: an empty entry is made for the new path
CacheRenameAlways(cache, oldPath, newPath) ==
    CacheDelete(CacheSet(cache, newPath,
                         IF oldPath \in DOMAIN cache THEN cache[oldPath] ELSE {}),
                oldPath)

\* the body of the vault 'rename' handler
CacheRename(cache, oldPath, newPath) ==
    IF oldPath \in DOMAIN cache
    THEN CacheDelete(CacheSet(cache, newPath, cache[oldPath]), oldPath)
    ELSE cache

\* Array.from(set).sort()
RECURSIVE SortNames(_)
SortNames(S) ==
    IF S = {} THEN <<>>
    ELSE LET m == CHOOSE x \in S : \A y \in S : ~StrLess(y, x)
         IN  <<m>> \o SortNames(S \ {m})

\* A faulty variant, for comparison: exact match only, no ".md" suffix
IsOrphanExact(link, paths) == link \notin paths

\* ![link + ".md", link].some((path) => paths.has(path))
IsOrphan(link, paths) == ~(\E path \in {link \o MD, link} : path \in paths)

\* A faulty variant, for comparison: the existence check looks at the indexed paths, not at the vault
getOrphansOfIndex(cache, st) ==
    LET paths == DOMAIN cache
        links == UNION {cache[k] : k \in DOMAIN cache}
    IN  SortNames({link \in links : IsOrphan(link, paths)})

\* OrphanLinksView.getOrphans
getOrphans(cache, st) ==
    LET paths == getMarkdownFiles(st)
        links == UNION {cache[k] : k \in DOMAIN cache}
    IN  SortNames({link \in links : IsOrphan(link, paths)})

----------------------------------------------------------------------------
(* Records of the suspended calls                                           *)

ScanIds == {"load", "open"}

IdleScan == [st |-> "idle", todo |-> {}, snap |-> {}, missed |-> {}]

\* buildCache right after `const files = this.app.vault.getMarkdownFiles()`
NewScan(st) ==
    [st |-> "run", todo |-> getMarkdownFiles(st), snap |-> getMarkdownFiles(st),
     missed |-> {}]

\* updateFileCache suspended at `await this.app.vault.read(file)`
NewTask(path, owner) ==
    [path |-> path, owner |-> owner, st |-> "reading", content |-> Empty]

\* lastOp: which step ran (op), on which path (and, for a rename, from which
\* path; for createFile, for which link name), on whose behalf (owner: the
\* "event" handlers, the buildCache of "load" or "open", or "none" when no
\* handler is registered yet), the link names the step dropped from the entry
\* of the path (gone) and whether the path had an entry before (hit)
NoOp ==
    [op |-> "none", path |-> Empty, from |-> Empty, owner |-> "none",
     gone |-> {}, hit |-> FALSE]

Op(op, path, from, owner, gone, hit) ==
    [op |-> op, path |-> path, from |-> from, owner |-> owner,
     gone |-> gone, hit |-> hit]

InFlight == BagCardinality(tasks)

AddTask(bag, t) == bag (+) SetToBag({t})

RemoveTask(bag, t) == bag (-) SetToBag({t})

\* what refresh() appends once the orphan list is there
Render(orphans) ==
    IF Len(orphans) = 0
    THEN [kind |-> "empty", header |-> 0, items |-> <<>>]
    ELSE [kind |-> "list", header |-> Len(orphans), items |-> orphans]

\* the next iterations of the loop of buildCache: files that are gone return
\* at once (`if (!(file instanceof TFile)) return`), the first file that is
\* there suspends at its read; without one the loop ends
ScanMoves(r, st) ==
    LET live == r.todo \cap DOMAIN st
        gone == r.todo \ live
    IN  IF live = {}
        THEN {[hasNext |-> FALSE, next |-> Empty,
               rec |-> [r EXCEPT !.st = "done", !.todo = {},
                                 !.missed = @ \cup gone]]}
        ELSE {[hasNext |-> TRUE, next |-> f,
               rec |-> [r EXCEPT !.todo = @ \ ({f} \cup G),
                                 !.missed = @ \cup G]] :
                f \in live, G \in SUBSET gone}

----------------------------------------------------------------------------
(* Initial state: the plugin object is constructed, onload has not run      *)

Init ==
    /\ store \in InitStores
    /\ linkCache = [k \in {} |-> {}]
    /\ loadPc = "init"
    /\ viewPc = "closed"
    /\ scan = [id \in ScanIds |-> IdleScan]
    /\ tasks = EmptyBag
    /\ container = <<>>
    /\ pending = <<>>
    /\ unsignalled = FALSE
    /\ lastOp = NoOp
    /\ ops = 0
    /\ fails = 0

----------------------------------------------------------------------------
(* The view                                                                 *)

\* OrphanLinksView.refresh up to its await, when `called`
Refresh(called, cache, st) ==
    IF called
    THEN /\ container' = <<>>
         /\ pending' = Append(pending, getOrphans(cache, st))
    ELSE UNCHANGED <<container, pending>>

\* room for one more suspended refresh
CanRefresh == viewPc # "closed" => Len(pending) < MaxPending

\* AdoptOrphanPlugin.refreshView: every open view refreshes
refreshView(cache, st) == Refresh(viewPc # "closed", cache, st)

\* refresh() after its await: the rendering is appended to the panel
RefreshResume ==
    /\ pending # <<>>
    /\ container' = Append(container, Render(Head(pending)))
    /\ pending' = Tail(pending)
    /\ UNCHANGED <<store, linkCache, loadPc, viewPc, scan, tasks,
                   unsignalled, ops, fails>>
    /\ lastOp' = NoOp

\* what the catch of refresh() appends: "Error loading orphan links"
ErrorBlock == [kind |-> "error", header |-> 0, items |-> <<>>]

\* A faulty variant, for comparison: the catch renders the empty state
RefreshThrowsShowsEmpty ==
    /\ pending # <<>>
    /\ container' = Append(container, Render(<<>>))
    /\ pending' = Tail(pending)
    /\ UNCHANGED <<store, linkCache, loadPc, viewPc, scan, tasks,
                   unsignalled, ops, fails>>
    /\ lastOp' = NoOp

\* refresh() after its await, getOrphans having thrown: the catch appends the
\* error message and logs
RefreshThrows ==
    /\ pending # <<>>
    /\ container' = Append(container, ErrorBlock)
    /\ pending' = Tail(pending)
    /\ UNCHANGED <<store, linkCache, loadPc, viewPc, scan, tasks,
                   unsignalled, ops, fails>>
    /\ lastOp' = NoOp

----------------------------------------------------------------------------
(* buildCache                                                               *)

\* the loop of buildCache `id` goes on from record r, with the cache `cache`
\* and the other suspended calls `others`; `wrote` tells whether the call
\* that just returned set an entry. When the loop ends, the caller goes on:
\* onload registers the event handlers, onOpen calls refresh().
ScanContinue(id, r, cache, others, wrote) ==
    \E m \in ScanMoves(r, store) :
        /\ scan' = [scan EXCEPT ![id] = m.rec]
        /\ tasks' = IF m.hasNext THEN AddTask(others, NewTask(m.next, id))
                    ELSE others
        /\ IF id = "load"
           THEN /\ loadPc' = IF m.hasNext THEN "building" ELSE "loaded"
                /\ UNCHANGED <<viewPc, container, pending>>
                /\ unsignalled' = (wrote \/ unsignalled)
           ELSE /\ viewPc' = IF m.hasNext THEN "building" ELSE "open"
                /\ UNCHANGED loadPc
                /\ Refresh(~m.hasNext, cache, store)
                /\ unsignalled' = IF m.hasNext THEN (wrote \/ unsignalled)
                                  ELSE FALSE

\* onload: registerView, the ribbon icon and the command, then buildCache up
\* to its first read (or, on a vault without markdown files, to its end)
OnLoad ==
    /\ loadPc = "init"
    /\ InFlight < MaxInFlight
    /\ ScanContinue("load", NewScan(store), linkCache, tasks, FALSE)
    /\ lastOp' = NoOp
    /\ UNCHANGED <<store, linkCache, ops, fails>>

\* activateView opens the view and runs onOpen: buildCache when the cache is
\* empty, then refresh()
OnOpen ==
    /\ loadPc # "init"
    /\ viewPc = "closed"
    /\ pending = <<>>
    /\ IF DOMAIN linkCache = {}
       THEN /\ InFlight < MaxInFlight
            /\ ScanContinue("open", NewScan(store), linkCache, tasks, FALSE)
       ELSE /\ viewPc' = "open"
            /\ Refresh(TRUE, linkCache, store)
            /\ unsignalled' = FALSE
            /\ UNCHANGED <<loadPc, scan, tasks>>
    /\ lastOp' = NoOp
    /\ UNCHANGED <<store, linkCache, ops, fails>>

----------------------------------------------------------------------------
(* updateFileCache                                                          *)

\* updateFileCache(filePath) called by the 'create' and 'modify' handlers:
\* the file is there, the call suspends at its read
StartUpdate(path) == tasks' = AddTask(tasks, NewTask(path, "event"))

\* vault.read has read the file: its promise will resolve with the content
\* the file has now
ReadSettles(t) ==
    /\ t.st = "reading"
    /\ t.path \in DOMAIN store
    /\ tasks' = AddTask(RemoveTask(tasks, t),
                        [t EXCEPT !.st = "ok", !.content = store[t.path]])
    /\ lastOp' = NoOp
    /\ UNCHANGED <<store, linkCache, loadPc, viewPc, scan, container, pending,
                   unsignalled, ops, fails>>

\* A faulty variant, for comparison: refreshView is called before the entry is set
ResumeOkSignalsFirst(t) ==
    LET cache == CacheSet(linkCache, t.path, Extract(t.content))
        gone == IF t.path \in DOMAIN linkCache
                THEN linkCache[t.path] \ Extract(t.content) ELSE {}
    IN  /\ t.st = "ok"
        /\ pending = <<>>
        /\ linkCache' = cache
        /\ lastOp' = Op("upsert", t.path, Empty, t.owner, gone,
                        t.path \in DOMAIN linkCache)
        /\ IF t.owner = "event"
           THEN /\ tasks' = RemoveTask(tasks, t)
                /\ refreshView(linkCache, store)
                /\ unsignalled' = FALSE
                /\ UNCHANGED <<loadPc, viewPc, scan>>
           ELSE ScanContinue(t.owner, scan[t.owner], cache,
                             RemoveTask(tasks, t), TRUE)
        /\ UNCHANGED <<store, ops, fails>>

\* updateFileCache after its await, the read having returned `content`:
\* the links are extracted and the entry is set; then refreshView unless
\* skipRefresh, and the buildCache that awaited the call goes on
ResumeOk(t) ==
    LET cache == CacheSet(linkCache, t.path, Extract(t.content))
        gone == IF t.path \in DOMAIN linkCache
                THEN linkCache[t.path] \ Extract(t.content) ELSE {}
    IN  /\ t.st = "ok"
        /\ pending = <<>>
        /\ linkCache' = cache
        /\ lastOp' = Op("upsert", t.path, Empty, t.owner, gone,
                        t.path \in DOMAIN linkCache)
        /\ IF t.owner = "event"
           THEN /\ tasks' = RemoveTask(tasks, t)
                /\ refreshView(cache, store)
                /\ unsignalled' = FALSE
                /\ UNCHANGED <<loadPc, viewPc, scan>>
           ELSE ScanContinue(t.owner, scan[t.owner], cache,
                             RemoveTask(tasks, t), TRUE)
        /\ UNCHANGED <<store, ops, fails>>

\* A faulty variant, for comparison: no try/catch: the error ends the buildCache that awaited the call
ResumeErrAborts(t) ==
    /\ t.st = "reading"
    /\ pending = <<>>
    /\ t.path \in DOMAIN store => fails < MaxFails
    /\ fails' = IF t.path \in DOMAIN store THEN fails + 1 ELSE fails
    /\ linkCache' = linkCache
    /\ lastOp' = Op("upsertFail", t.path, Empty, t.owner, {},
                    t.path \in DOMAIN linkCache)
    /\ tasks' = RemoveTask(tasks, t)
    /\ scan' = IF t.owner = "event" THEN scan
               ELSE [scan EXCEPT ![t.owner].st = "failed"]
    /\ UNCHANGED <<store, ops, loadPc, viewPc, container, pending, unsignalled>>

\* A faulty variant, for comparison: a failed read counts as an empty content
ResumeErrEmpties(t) ==
    /\ t.st = "reading"
    /\ pending = <<>>
    /\ t.path \in DOMAIN store => fails < MaxFails
    /\ fails' = IF t.path \in DOMAIN store THEN fails + 1 ELSE fails
    /\ linkCache' = CacheSet(linkCache, t.path, {})
    /\ lastOp' = Op("upsertFail", t.path, Empty, t.owner, {},
                    t.path \in DOMAIN linkCache)
    /\ IF t.owner = "event"
       THEN /\ tasks' = RemoveTask(tasks, t)
            /\ UNCHANGED <<loadPc, viewPc, scan, container, pending,
                           unsignalled>>
       ELSE ScanContinue(t.owner,
                         [scan[t.owner] EXCEPT !.missed = @ \cup {t.path}],
                         linkCache', RemoveTask(tasks, t), FALSE)
    /\ UNCHANGED <<store, ops>>

\* updateFileCache after its await, the read having thrown (it does when the
\* file is gone, and may whenever it has not read the file yet): the catch
\* logs the error and the call returns
ResumeErr(t) ==
    /\ t.st = "reading"
    /\ pending = <<>>
    /\ t.path \in DOMAIN store => fails < MaxFails
    /\ fails' = IF t.path \in DOMAIN store THEN fails + 1 ELSE fails
    /\ linkCache' = linkCache
    /\ lastOp' = Op("upsertFail", t.path, Empty, t.owner, {},
                    t.path \in DOMAIN linkCache)
    /\ IF t.owner = "event"
       THEN /\ tasks' = RemoveTask(tasks, t)
            /\ UNCHANGED <<loadPc, viewPc, scan, container, pending,
                           unsignalled>>
       ELSE ScanContinue(t.owner,
                         [scan[t.owner] EXCEPT !.missed = @ \cup {t.path}],
                         linkCache, RemoveTask(tasks, t), FALSE)
    /\ UNCHANGED <<store, ops>>

----------------------------------------------------------------------------
(* Vault operations, each followed by the handler the plugin registered     *)
(* for its event once onload has got that far                               *)

Handled == loadPc = "loaded"

OwnerNow == IF Handled THEN "event" ELSE "none"

\* a file is created; 'create' handler
VaultCreate(path, content) ==
    /\ loadPc # "init"
    /\ ops < MaxOps
    /\ path \notin DOMAIN store
    /\ store' = StoreAdd(store, path, content)
    /\ IF Handled /\ IsMd(path)
       THEN /\ InFlight < MaxInFlight
            /\ StartUpdate(path)
       ELSE UNCHANGED tasks
    /\ lastOp' = Op("create", path, Empty, OwnerNow, {},
                    path \in DOMAIN linkCache)
    /\ ops' = ops + 1
    /\ UNCHANGED fails
    /\ UNCHANGED <<linkCache, loadPc, viewPc, scan, container, pending,
                   unsignalled>>

\* a file's content is changed; 'modify' handler. `budget` is the number of
\* vault operations the run may have
Modify(path, content, budget) ==
    /\ loadPc # "init"
    /\ ops < budget
    /\ path \in DOMAIN store
    /\ store' = [store EXCEPT ![path] = content]
    /\ IF Handled /\ IsMd(path)
       THEN /\ InFlight < MaxInFlight
            /\ StartUpdate(path)
       ELSE UNCHANGED tasks
    /\ lastOp' = Op("modify", path, Empty, OwnerNow, {},
                    path \in DOMAIN linkCache)
    /\ ops' = ops + 1
    /\ UNCHANGED fails
    /\ UNCHANGED <<linkCache, loadPc, viewPc, scan, container, pending,
                   unsignalled>>

VaultModify(path, content) == Modify(path, content, MaxOps)

\* a file is deleted; 'delete' handler
Delete(path, budget) ==
    /\ loadPc # "init"
    /\ ops < budget
    /\ path \in DOMAIN store
    /\ store' = StoreRemove(store, path)
    /\ IF Handled
       THEN /\ CanRefresh
            /\ linkCache' = CacheDelete(linkCache, path)
            /\ refreshView(linkCache', store')
            /\ unsignalled' = FALSE
       ELSE UNCHANGED <<linkCache, container, pending, unsignalled>>
    /\ lastOp' = Op("delete", path, Empty, OwnerNow,
                    IF path \in DOMAIN linkCache THEN linkCache[path] ELSE {},
                    path \in DOMAIN linkCache)
    /\ ops' = ops + 1
    /\ UNCHANGED fails
    /\ UNCHANGED <<loadPc, viewPc, scan, tasks>>

VaultDelete(path) == Delete(path, MaxOps)

\* a file is renamed; 'rename' handler
Rename(oldPath, newPath, budget) ==
    /\ loadPc # "init"
    /\ ops < budget
    /\ oldPath \in DOMAIN store
    /\ newPath \notin DOMAIN store
    /\ store' = StoreAdd(StoreRemove(store, oldPath), newPath, store[oldPath])
    /\ IF Handled
       THEN /\ CanRefresh
            /\ linkCache' = CacheRename(linkCache, oldPath, newPath)
            /\ refreshView(linkCache', store')
            /\ unsignalled' = FALSE
       ELSE UNCHANGED <<linkCache, container, pending, unsignalled>>
    /\ lastOp' = Op("rename", newPath, oldPath, OwnerNow, {},
                    oldPath \in DOMAIN linkCache)
    /\ ops' = ops + 1
    /\ UNCHANGED fails
    /\ UNCHANGED <<loadPc, viewPc, scan, tasks>>

VaultRename(oldPath, newPath) == Rename(oldPath, newPath, MaxOps)

\* a handler's updateFileCache call for the path is suspended at its read
UpdateInFlight(path) ==
    \E t \in BagToSet(tasks) : t.path = path /\ t.owner = "event"

\* a burst of events on one document: the next event on it comes while the
\* updateFileCache call of the previous one is still suspended
BurstModify(path, content) ==
    /\ UpdateInFlight(path)
    /\ Modify(path, content, MaxOps + MaxBursts)

BurstDelete(path) ==
    /\ UpdateInFlight(path)
    /\ Delete(path, MaxOps + MaxBursts)

BurstRename(oldPath, newPath) ==
    /\ UpdateInFlight(oldPath)
    /\ Rename(oldPath, newPath, MaxOps + MaxBursts)

----------------------------------------------------------------------------
(* OrphanLinksView.createFile, run by a click on a rendered orphan          *)

Shown == UNION {{b.items[i] : i \in 1..Len(b.items)} :
                b \in {container[j] : j \in 1..Len(container)}}

\* A faulty variant, for comparison: the link name is the file name as it is
FileNameOfRaw(linkName) == linkName

FileNameOf(linkName) ==
    IF EndsWith(linkName, MD) THEN linkName ELSE linkName \o MD

\* vault.create succeeds: the file is there and empty ('create' handler as
\* above), it is opened and the notice says "Created" (op "createFile")
CreateFileOk(linkName) ==
    LET fileName == FileNameOf(linkName)
    IN  /\ viewPc = "open"
        /\ pending = <<>>
        /\ linkName \in Shown
        /\ ops < MaxOps
        /\ fileName \notin DOMAIN store
        /\ store' = StoreAdd(store, fileName, Empty)
        /\ IF Handled /\ IsMd(fileName)
           THEN /\ InFlight < MaxInFlight
                /\ StartUpdate(fileName)
           ELSE UNCHANGED tasks
        /\ lastOp' = Op("createFile", fileName, linkName, OwnerNow, {},
                        fileName \in DOMAIN linkCache)
        /\ ops' = ops + 1
        /\ UNCHANGED fails
        /\ UNCHANGED <<linkCache, loadPc, viewPc, scan, container, pending,
                       unsignalled>>

\* A faulty variant, for comparison: the catch also drops the name from the cache
CreateFileErrForgets(linkName) ==
    LET fileName == IF EndsWith(linkName, MD) THEN linkName ELSE linkName \o MD
    IN  /\ viewPc = "open"
        /\ pending = <<>>
        /\ linkName \in Shown
        /\ linkCache' = [k \in DOMAIN linkCache |-> linkCache[k] \ {linkName}]
        /\ lastOp' = Op("createFileFail", fileName, linkName, "none", {},
                        fileName \in DOMAIN store)
        /\ UNCHANGED <<store, loadPc, viewPc, scan, tasks,
                       container, pending, unsignalled, ops, fails>>

\* vault.create throws (it does when the file exists): nothing is opened
\* and the catch shows the notice "Failed to create file" (op
\* "createFileFail")
CreateFileErr(linkName) ==
    LET fileName == FileNameOf(linkName)
    IN  /\ viewPc = "open"
        /\ pending = <<>>
        /\ linkName \in Shown
        /\ lastOp' = Op("createFileFail", fileName, linkName, "none", {},
                        fileName \in DOMAIN store)
        /\ UNCHANGED <<store, linkCache, loadPc, viewPc, scan, tasks,
                       container, pending, unsignalled, ops, fails>>

----------------------------------------------------------------------------

\* the content a file of the model is created with
NewContent(path) ==
    IF path = PathX THEN ContentAB ELSE IF path = PathB THEN ContentBmd ELSE Empty

\* the contents a file of the model is changed to
ContentsFor(path) == IF IsMd(path) THEN Contents ELSE {Empty}

Next ==
    \/ OnLoad
    \/ OnOpen
    \/ RefreshResume
    \/ \E t \in BagToSet(tasks) : ReadSettles(t)
    \/ \E t \in BagToSet(tasks) : ResumeOk(t)
    \/ \E t \in BagToSet(tasks) : ResumeErr(t)
    \/ \E path \in Paths : VaultCreate(path, NewContent(path))
    \/ \E path \in Paths : \E content \in ContentsFor(path) :
            VaultModify(path, content)
    \/ \E path \in Paths : VaultDelete(path)
    \/ \E oldPath \in Paths, newPath \in Paths : VaultRename(oldPath, newPath)
    \/ \E linkName \in Shown : CreateFileOk(linkName)
    \/ \E linkName \in Shown : CreateFileErr(linkName)

Spec == Init /\ [][Next]_vars

\* the same program loaded on a vault of one file with any content made of a
\* few pieces, or with one of two longer contents; nothing else happens
Frags == {<<"[", "[">>, <<"]", "]">>, <<"]">>, <<"|">>, <<" ">>, <<"a">>}

RECURSIVE FragStrings(_)
FragStrings(n) ==
    IF n = 0 THEN {<<>>}
    ELSE LET shorter == FragStrings(n - 1)
         IN  shorter \cup {t \o f : t \in shorter, f \in Frags}

\* "See [[Foo Bar|display]] and [[Baz]]"
ContentSee ==
    <<"S", "e", "e", " ", "[", "[", "F", "o", "o", " ", "B", "a", "r", "|",
      "d", "i", "s", "p", "l", "a", "y", "]", "]", " ",
      "a", "n", "d", " ", "[", "[", "B", "a", "z", "]", "]">>

\* "[[a|a|a]][[ a a ]] [[|a]]"
ContentBars ==
    <<"[", "[", "a", "|", "a", "|", "a", "]", "]",
      "[", "[", " ", "a", " ", "a", " ", "]", "]", " ",
      "[", "[", "|", "a", "]", "]">>

ExtractInputs == FragStrings(MaxFrags) \cup {ContentSee, ContentBars}

InitExtract ==
    /\ store \in {[p \in {PathX} |-> c] : c \in ExtractInputs}
    /\ linkCache = [k \in {} |-> {}]
    /\ loadPc = "init"
    /\ viewPc = "closed"
    /\ scan = [id \in ScanIds |-> IdleScan]
    /\ tasks = EmptyBag
    /\ container = <<>>
    /\ pending = <<>>
    /\ unsignalled = FALSE
    /\ lastOp = NoOp
    /\ ops = 0
    /\ fails = 0

NextExtract ==
    \/ OnLoad
    \/ \E t \in BagToSet(tasks) : ReadSettles(t)
    \/ \E t \in BagToSet(tasks) : ResumeOk(t)

SpecExtract == InitExtract /\ [][NextExtract]_vars

\* the same program, the orphan query of a refresh being able to throw
NextQueryFails ==
    \/ Next
    \/ RefreshThrows

SpecQueryFails == Init /\ [][NextQueryFails]_vars

\* the same program, the vault also sending bursts of events on one document
NextBurst ==
    \/ Next
    \/ \E path \in Paths : \E content \in ContentsFor(path) :
            BurstModify(path, content)
    \/ \E path \in Paths : BurstDelete(path)
    \/ \E oldPath \in Paths, newPath \in Paths : BurstRename(oldPath, newPath)

SpecBurst == Init /\ [][NextBurst]_vars

----------------------------------------------------------------------------
(* Properties                                                               *)

\* the link names of an index
NamesOf(cache) == UNION {cache[k] : k \in DOMAIN cache}

\* the names orphans() returns when it is called in the current state
OrphanSet ==
    LET list == getOrphans(linkCache, store)
    IN  {list[i] : i \in 1..Len(list)}

\* the markdown documents of the store
Documents == {p \in DOMAIN store : IsMd(p)}

\* a document resolves the link name: the name itself or the name + ".md"
Resolves(link, docs) == link \in docs \/ (link \o MD) \in docs

\* the suspended updateFileCache calls
Calls == BagToSet(tasks)

\* a vault event is handled by a registered handler in this step
HandledEvent ==
    /\ Handled
    /\ \/ \E path \in Paths : VaultCreate(path, NewContent(path))
       \/ \E path \in Paths : \E content \in ContentsFor(path) :
              VaultModify(path, content)
       \/ \E path \in Paths : VaultDelete(path)
       \/ \E oldPath \in Paths, newPath \in Paths : VaultRename(oldPath, newPath)
       \/ \E linkName \in Shown : CreateFileOk(linkName)

\* C1: when updateFileCache completes for a document with the content c it
\* read, the entry of the document is exactly the links extracted from c (no
\* name of the previous entry survives unless c has it), and when the entry
\* was already that set the index does not change.
C1_UpsertReplaces ==
    [][\A t \in Calls : ResumeOk(t) =>
          /\ t.path \in DOMAIN linkCache'
          /\ linkCache'[t.path] = Extract(t.content)
          /\ (t.path \in DOMAIN linkCache
                => (linkCache[t.path] \ Extract(t.content))
                       \cap linkCache'[t.path] = {})
          /\ (t.path \in DOMAIN linkCache
                /\ linkCache[t.path] = Extract(t.content)
                => linkCache' = linkCache)]_vars

\* an upsert has just replaced an entry and dropped names the content no
\* longer has
C1_Witness ==
    /\ lastOp.op = "upsert"
    /\ lastOp.hit
    /\ lastOp.gone # {}
    /\ lastOp.path \in DOMAIN linkCache
    /\ linkCache[lastOp.path] \cap lastOp.gone = {}
    /\ linkCache[lastOp.path] # {}

\* C2: the 'rename' handler on an indexed oldPath removes the entry of
\* oldPath, maps newPath to exactly the set oldPath had, and leaves every
\* other key as it was.
C2_RenameMoves ==
    [][\A oldPath \in Paths, newPath \in Paths :
          (VaultRename(oldPath, newPath) /\ Handled
              /\ oldPath \in DOMAIN linkCache) =>
          /\ oldPath \notin DOMAIN linkCache'
          /\ newPath \in DOMAIN linkCache'
          /\ linkCache'[newPath] = linkCache[oldPath]
          /\ DOMAIN linkCache' \ {newPath} = DOMAIN linkCache \ {oldPath, newPath}
          /\ \A k \in DOMAIN linkCache' \ {newPath} :
                linkCache'[k] = linkCache[k]]_vars

\* a rename of an indexed document has just been handled: its links are
\* under the new path
C2_Witness ==
    /\ lastOp.op = "rename"
    /\ lastOp.owner = "event"
    /\ lastOp.hit
    /\ lastOp.from \notin DOMAIN linkCache
    /\ lastOp.path \in DOMAIN linkCache
    /\ linkCache[lastOp.path] # {}
    /\ DOMAIN linkCache # {lastOp.path}

\* C3: the 'rename' handler on an oldPath that is not indexed leaves the
\* index as it is (no entry appears under newPath) and still signals: the
\* open view starts a refresh.
C3_RenameMiss ==
    [][\A oldPath \in Paths, newPath \in Paths :
          (VaultRename(oldPath, newPath) /\ Handled
              /\ oldPath \notin DOMAIN linkCache) =>
          /\ linkCache' = linkCache
          /\ unsignalled' = FALSE
          /\ (viewPc # "closed" =>
                /\ container' = <<>>
                /\ pending' = Append(pending, getOrphans(linkCache, store')))
       ]_vars

\* a rename of a document without entry has just been handled with the view
\* open: no entry for the new path, the view is refreshing
C3_Witness ==
    /\ lastOp.op = "rename"
    /\ lastOp.owner = "event"
    /\ ~lastOp.hit
    /\ lastOp.path \notin DOMAIN linkCache
    /\ DOMAIN linkCache # {}
    /\ viewPc = "open"
    /\ container = <<>>
    /\ pending # <<>>

\* C4: the 'delete' handler removes the entry of the path and nothing else
\* (nothing at all when the path has no entry), and a link name that only
\* that entry had is not an orphan any more.
C4_DeleteRemoves ==
    [][\A path \in Paths :
          (VaultDelete(path) /\ Handled) =>
          /\ DOMAIN linkCache' = DOMAIN linkCache \ {path}
          /\ \A k \in DOMAIN linkCache' : linkCache'[k] = linkCache[k]
          /\ (path \notin DOMAIN linkCache => linkCache' = linkCache)
          /\ (path \in DOMAIN linkCache =>
                \A link \in linkCache[path] :
                    (\A k \in DOMAIN linkCache \ {path} :
                        link \notin linkCache[k])
                    => /\ link \notin OrphanSet'
                       /\ (viewPc # "closed" =>
                             \A i \in 1..Len(pending'[Len(pending')]) :
                                 pending'[Len(pending')][i] # link))]_vars

\* a delete of an indexed document has just been handled: a name only it
\* referenced, still without target, is not returned any more
C4_Witness ==
    /\ lastOp.op = "delete"
    /\ lastOp.owner = "event"
    /\ lastOp.hit
    /\ lastOp.path \notin DOMAIN linkCache
    /\ \E link \in lastOp.gone :
          /\ ~Resolves(link, Documents)
          /\ link \notin OrphanSet

\* the elements of a list
RangeOf(seq) == {seq[i] : i \in 1..Len(seq)}

\* the link names of an index that no markdown document of a store resolves
Unresolved(cache, st) ==
    {link \in NamesOf(cache) : ~Resolves(link, {p \in DOMAIN st : IsMd(p)})}

\* a handler has just called refreshView with a view there
JustSignalled ==
    /\ lastOp.owner = "event"
    /\ lastOp.op \in {"upsert", "delete", "rename"}
    /\ viewPc # "closed"

\* C5: orphans() returns exactly the indexed link names L for which neither
\* the document L nor the document L + ".md" exists, both as a query on any
\* state and as the list the refresh() of a handler has just computed; "B" is
\* never returned while "B.md" exists.
C5_OrphansExact ==
    /\ OrphanSet = Unresolved(linkCache, store)
    /\ JustSignalled =>
          /\ pending # <<>>
          /\ RangeOf(pending[Len(pending)]) = Unresolved(linkCache, store)
    /\ PathB \in DOMAIN store => <<"B">> \notin OrphanSet

\* the view shows the list of the current state: "B" is indexed and left out
\* of it because "B.md" exists, another name is in it
C5_Witness ==
    /\ container = <<Render(getOrphans(linkCache, store))>>
    /\ container[1].kind = "list"
    /\ <<"B">> \in NamesOf(linkCache)
    /\ PathB \in Documents
    /\ <<"B">> \notin RangeOf(container[1].items)

\* s is before t in code-unit order: at the first position where they
\* differ s has the smaller code unit, or s is a proper prefix of t
CodeUnitBefore(s, t) ==
    \E k \in 1..(Len(s) + 1) :
        /\ k <= Len(t)
        /\ \A j \in 1..(k - 1) : s[j] = t[j]
        /\ (k <= Len(s) => Code(s[k]) < Code(t[k]))

Ascending(list) ==
    \A i \in 1..(Len(list) - 1) : CodeUnitBefore(list[i], list[i + 1])

\* C6: every list orphans() returns (the one of the current state, the ones
\* the suspended refreshes hold, the ones in the panel) is strictly ascending
\* in code-unit order: no name twice, "B" before "a".
C6_OrphansSorted ==
    /\ Ascending(getOrphans(linkCache, store))
    /\ \A i \in 1..Len(pending) : Ascending(pending[i])
    /\ \A i \in 1..Len(container) : Ascending(container[i].items)

\* the panel shows three orphans, in the order "B", "B.md", "a"
C6_Witness ==
    \E i \in 1..Len(container) :
        container[i].items = << <<"B">>, PathB, <<"a">> >>

\* C7: in a step that leaves the index as it is, a name that was returned and
\* that the store now resolves is not returned by the next orphans(), and a
\* name of the index that was resolved and no longer is, is returned again.
C7_OrphansFresh ==
    [][linkCache' = linkCache =>
          \A link \in NamesOf(linkCache) :
              /\ (link \in OrphanSet
                    /\ Resolves(link, {p \in DOMAIN store' : IsMd(p)})
                    => link \notin OrphanSet')
              /\ (link \notin OrphanSet
                    /\ ~Resolves(link, {p \in DOMAIN store' : IsMd(p)})
                    => link \in OrphanSet')]_vars

\* "B.md" has just been created, the index still names "B" and was not
\* touched: "B" is not returned any more
C7_Witness ==
    /\ lastOp.op \in {"create", "createFile"}
    /\ lastOp.path = PathB
    /\ <<"B">> \in NamesOf(linkCache)
    /\ PathB \notin DOMAIN linkCache
    /\ <<"B">> \notin OrphanSet
    /\ OrphanSet # {}

\* C8: a read that throws during buildCache does not end the scan: the scan
\* goes on with a remaining document, or ends because none is left to read;
\* a document read after a failure is indexed with its extracted links; and
\* when the scan of onload ends, every document of its snapshot whose read
\* did not fail is indexed, its unresolved link names being orphans.
C8_ScanIsolatesFailures ==
    /\ [][\A t \in Calls :
             (ResumeErr(t) /\ t.owner \in ScanIds) =>
             LET r == scan[t.owner]
                 r2 == scan'[t.owner]
             IN  /\ r2.st \in {"run", "done"}
                 /\ r2.st = "done" => r.todo \cap DOMAIN store = {}
                 /\ r2.st = "run" =>
                       \E f \in r.todo \cap DOMAIN store :
                           /\ f \notin r2.todo
                           /\ NewTask(f, t.owner) \in BagToSet(tasks')]_vars
    /\ [][\A t \in Calls :
             (ResumeOk(t) /\ t.owner \in ScanIds
                 /\ scan[t.owner].missed # {}) =>
             /\ t.path \in DOMAIN linkCache'
             /\ linkCache'[t.path] = Extract(t.content)]_vars
    /\ [](loadPc = "loaded" /\ lastOp.owner = "load" =>
             \A f \in scan["load"].snap \ scan["load"].missed :
                 /\ f \in DOMAIN linkCache
                 /\ \A link \in linkCache[f] :
                       ~Resolves(link, Documents) => link \in OrphanSet)

\* the scan of onload has just ended by indexing a document, after the read
\* of another document of the snapshot had failed
C8_Witness ==
    /\ loadPc = "loaded"
    /\ lastOp.op = "upsert"
    /\ lastOp.owner = "load"
    /\ scan["load"].missed # {}
    /\ scan["load"].missed \subseteq DOMAIN store
    /\ lastOp.path \in DOMAIN linkCache
    /\ linkCache[lastOp.path] \cap OrphanSet # {}

\* C9: when the read of updateFileCache throws, the index is left as it was
\* (prior entry kept, none created, no other key touched) and the call
\* returns normally: the buildCache that awaited it is not ended by it.
C9_FailedUpsertKeepsIndex ==
    [][\A t \in Calls :
          ResumeErr(t) =>
          /\ linkCache' = linkCache
          /\ t \notin BagToSet(tasks') \/ tasks[t] > tasks'[t]
          /\ t.owner \in ScanIds => scan'[t.owner].st \in {"run", "done"}
          /\ t.owner = "event" => UNCHANGED <<loadPc, viewPc, scan>>]_vars

\* the read of an indexed document has just failed: its prior entry is there
C9_Witness ==
    /\ lastOp.op = "upsertFail"
    /\ lastOp.hit
    /\ lastOp.path \in DOMAIN linkCache
    /\ linkCache[lastOp.path] # {}

\* C10: no vault event is handled while a view is open and the index holds a
\* mutation that no refresh notification has followed.
C10_EveryMutationSignalled ==
    [][HandledEvent /\ viewPc = "open" => ~unsignalled]_vars

\* C11: updates of one document are applied in the order of their events:
\* for a document that the scan of onload has read, no read having thrown,
\* when the last suspended updateFileCache call that the 'modify' handler
\* made for it completes, the entry of the document is the extraction of its
\* latest content, whichever read returned first.
C11_LatestContentWins ==
    [][\A t \in Calls :
          (/\ ResumeOk(t)
           /\ t.owner = "event"
           /\ t.path \in DOMAIN store
           /\ t.path \in scan["load"].snap
           /\ fails = 0
           /\ \A u \in BagToSet(tasks') : u.path # t.path) =>
          linkCache'[t.path] = Extract(store[t.path])]_vars

\* C18: an updateFileCache call that a handler made never sets the entry of a
\* document that is gone: after the 'delete' (or the 'rename' away) of the
\* document was handled, no entry comes back under its path.
C18_NoEntryAfterDelete ==
    [][\A t \in Calls :
          (ResumeOk(t) /\ t.owner = "event") =>
          t.path \in DOMAIN store]_vars

\* C12: once onload has returned, with no updateFileCache call suspended and
\* no read having failed or been skipped, every markdown document of the
\* store (each was read by the scan of onload or has come by a create or
\* rename since, be it while the scan was running) has an entry.
C12_ObservedIndexed ==
    (/\ loadPc = "loaded"
     /\ tasks = EmptyBag
     /\ fails = 0
     /\ \A id \in ScanIds : scan[id].missed = {})
    => \A p \in Documents : p \in DOMAIN linkCache

\* C13: an upsert shows its effect on completion only, and before it
\* signals: the index changes in no step but the completion of an
\* updateFileCache call and the 'delete' and 'rename' handlers (not when the
\* call starts, not when its read returns), and when a call made by a
\* handler completes with the content c it read, the entry is extract(c) and
\* the list that the refresh it triggers computes is the orphan list of the
\* index with that entry.
C13_VisibleOnCompletion ==
    [][/\ linkCache' # linkCache =>
              lastOp'.op \in {"upsert", "delete", "rename"}
       /\ \A t \in Calls : ReadSettles(t) => linkCache' = linkCache
       /\ \A t \in Calls :
             (ResumeOk(t) /\ t.owner = "event") =>
             /\ linkCache'[t.path] = Extract(t.content)
             /\ viewPc # "closed" =>
                   /\ pending' = Append(pending, getOrphans(linkCache', store))
                   /\ RangeOf(pending'[Len(pending')]) =
                         Unresolved(CacheSet(linkCache, t.path,
                                             Extract(t.content)), store)
      ]_vars

\* the 'modify' handler's call has just completed with the view open: the
\* names it dropped are not in the list of the refresh, a name it brought is
C13_Witness ==
    /\ lastOp.op = "upsert"
    /\ lastOp.owner = "event"
    /\ lastOp.hit
    /\ lastOp.gone # {}
    /\ viewPc = "open"
    /\ pending # <<>>
    /\ RangeOf(pending[Len(pending)]) \cap lastOp.gone = {}
    /\ RangeOf(pending[Len(pending)]) \cap linkCache[lastOp.path] # {}

\* a click on the shown link name runs createFile
CreateFile(linkName) == CreateFileOk(linkName) \/ CreateFileErr(linkName)

\* C14: createFile for a link name whose target file already exists leaves
\* the store as it is, opens the existing file and does not end with the
\* notice of a failed creation.
C14_ConflictOpensExisting ==
    [][\A linkName \in Shown :
          (CreateFile(linkName) /\ FileNameOf(linkName) \in DOMAIN store) =>
          /\ store' = store
          /\ lastOp'.op # "createFileFail"]_vars

\* the names orphans() returns for an index and a store
Returned(cache, st) == RangeOf(getOrphans(cache, st))

\* C15: when vault.create throws, createFile catches it and shows a notice;
\* the index and the store are as before, so orphans() returns what it
\* returned, the link name included when it was; and a createFile that
\* succeeds does not touch the index either.
C15_FailedCreateKeepsState ==
    [][\A linkName \in Shown :
          /\ CreateFileErr(linkName) =>
                /\ lastOp'.op = "createFileFail"
                /\ linkCache' = linkCache
                /\ store' = store
                /\ Returned(linkCache', store') = Returned(linkCache, store)
                /\ (linkName \in Returned(linkCache, store)
                      => linkName \in Returned(linkCache', store'))
                /\ UNCHANGED <<loadPc, viewPc, scan, tasks>>
          /\ CreateFileOk(linkName) => linkCache' = linkCache]_vars

\* vault.create has just thrown for an orphan whose file does not exist: the
\* notice is shown and the name is still an orphan
C15_Witness ==
    /\ lastOp.op = "createFileFail"
    /\ ~lastOp.hit
    /\ lastOp.path \notin DOMAIN store
    /\ lastOp.from \in OrphanSet

\* C19: when no refresh() is suspended any more, the panel of the open view
\* holds exactly one rendering.
C19_OneRendering ==
    (viewPc = "open" /\ pending = <<>>) => Len(container) = 1

\* C20: when createFile succeeds for a link name that orphans() returns, the
\* file it made is in the store, the index is as before and the next
\* orphans() does not return the name.
C20_CreatedResolves ==
    [][\A linkName \in Shown :
          (CreateFileOk(linkName) /\ linkName \in OrphanSet) =>
          /\ FileNameOf(linkName) \in DOMAIN store'
          /\ linkCache' = linkCache
          /\ linkName \notin OrphanSet']_vars

\* createFile has just made the file of an indexed name by adding ".md": the
\* name is not an orphan any more
C20_Witness ==
    /\ lastOp.op = "createFile"
    /\ lastOp.path = lastOp.from \o MD
    /\ lastOp.path \in DOMAIN store
    /\ lastOp.from \in NamesOf(linkCache)
    /\ lastOp.from \notin OrphanSet

\* C16: a refresh() whose orphan query throws ends by adding the error
\* message, which is neither the empty-state message nor a list, and nothing
\* else; a refresh() that starts empties the panel, so no list rendered
\* before it began is left on display; hence, no other refresh() having
\* rendered meanwhile, the panel shows the error message alone.
C16_ErrorStateDistinct ==
    /\ [][RefreshThrows =>
             /\ Len(container') = Len(container) + 1
             /\ SubSeq(container', 1, Len(container)) = container
             /\ container'[Len(container')].kind = "error"
             /\ container'[Len(container')].kind \notin {"empty", "list"}
             /\ container'[Len(container')].items = <<>>
             /\ container'[Len(container')] # Render(<<>>)
             /\ (container = <<>> => container' = <<ErrorBlock>>)]_vars
    /\ [][Len(pending') > Len(pending) => container' = <<>>]_vars

\* the panel shows the error message alone, although the index has orphans
C16_Witness ==
    /\ viewPc = "open"
    /\ pending = <<>>
    /\ container = <<ErrorBlock>>
    /\ OrphanSet # {}

\* a marker from position i to position j: "[[", a non-empty text without
\* "]", "]]"
Marker(s, i, j) ==
    /\ 1 <= i /\ i + 4 <= j /\ j <= Len(s)
    /\ s[i] = "[" /\ s[i + 1] = "["
    /\ s[j - 1] = "]" /\ s[j] = "]"
    /\ \A k \in (i + 2)..(j - 2) : s[k] # "]"

\* the start positions of the markers taken left to right without overlap: a
\* marker is taken when no marker taken before it reaches into it
TakenMarkers(s) ==
    LET taken[i \in 1..Len(s)] ==
            /\ \E j \in 1..Len(s) : Marker(s, i, j)
            /\ \A i2 \in 1..(i - 1) :
                  taken[i2] => \A j2 \in 1..Len(s) : Marker(s, i2, j2) => j2 < i
    IN  {i \in 1..Len(s) : taken[i]}

\* u is t cut at its first "|"
IsCutAtBar(u, t) ==
    /\ Len(u) <= Len(t)
    /\ u = SubSeq(t, 1, Len(u))
    /\ \A k \in 1..Len(u) : u[k] # "|"
    /\ Len(u) < Len(t) => t[Len(u) + 1] = "|"

\* u is t without the whitespace around it
IsTrimOf(u, t) ==
    \E a \in 0..Len(t), b \in 0..Len(t) :
        /\ a + Len(u) + b = Len(t)
        /\ u = SubSeq(t, a + 1, a + Len(u))
        /\ \A k \in 1..a : IsSpace(t[k])
        /\ \A k \in (Len(t) - b + 1)..Len(t) : IsSpace(t[k])
        /\ u # <<>> => ~IsSpace(u[1]) /\ ~IsSpace(u[Len(u)])

\* the pieces of a string: every SubSeq of it
Pieces(s) == {SubSeq(s, a, b) : a \in 1..(Len(s) + 1), b \in 0..Len(s)}

\* the names the markers of a content give
MarkerNames(s) ==
    {n \in Pieces(s) \ {<<>>} :
        \E i \in TakenMarkers(s), j \in 1..Len(s) :
            /\ Marker(s, i, j)
            /\ \E u \in Pieces(s) :
                  /\ IsCutAtBar(u, SubSeq(s, i + 2, j - 2))
                  /\ IsTrimOf(n, u)}

\* C17: the entry that updateFileCache sets for a content is exactly the set
\* of names of its markers, taken left to right without overlap, each the
\* text between the brackets cut at its first "|" and trimmed, the empty ones
\* dropped; "[[" without "]]" gives no name; and the content
\* "See [[Foo Bar|display]] and [[Baz]]" gives {"Foo Bar", "Baz"}.
C17_ExtractionExact ==
    /\ \A p \in DOMAIN linkCache :
          /\ linkCache[p] = MarkerNames(store[p])
          /\ (\A j \in 1..Len(store[p]) : store[p][j] # "]")
                => linkCache[p] = {}
    /\ Extract(ContentSee) =
          { <<"F", "o", "o", " ", "B", "a", "r">>, <<"B", "a", "z">> }

\* the file with "See [[Foo Bar|display]] and [[Baz]]" has been indexed
C17_Witness ==
    /\ loadPc = "loaded"
    /\ store[PathX] = ContentSee
    /\ PathX \in DOMAIN linkCache
    /\ linkCache[PathX] = { <<"F", "o", "o", " ", "B", "a", "r">>,
                            <<"B", "a", "z">> }

====
